---- MODULE Spec2Model ----
(***************************************************************************)
(* A model of package xbargo (src/xbargo.go): the MenuItem / Separator /   *)
(* Plugin data model, the line encoding of renderSelf, and the walk of     *)
(* RunW and printElement that writes the lines to an io.Writer.            *)
(*                                                                         *)
(* Text is modelled character by character: a Go string is a sequence of   *)
(* one-character strings, so that concatenation, quoting (%q) and base64   *)
(* are computed, not assumed.  A []byte is a sequence of numbers 0..255.   *)
(* A *MenuItem is an address in the variable heap.                         *)
(***************************************************************************)
EXTENDS Naturals, Sequences, FiniteSets, TLC

(***************************************************************************)
(* Bounds of the model.                                                    *)
(***************************************************************************)
\* the MenuItems and Separators of a tree besides the title, in the walk's trees
MaxNodes == 4
\* the MenuItems besides the title in the trees that carry icons
MaxIconNodes == 2
\* the RunW calls made on one Plugin
MaxCalls == 2
\* the arguments of a ShellAction
MaxArgs == 2
\* the largest Style.MaxLength tried
MaxMaxLength == 11
\* the builder calls (WithText, WithElements, ...) made on one Plugin and its items
MaxBuilds == 2

(***************************************************************************)
(* The literals of the source's format strings.                            *)
(***************************************************************************)
LitSeparator == <<"-", "-", "-">>
LitIndent == <<"-", "-">>
LitBar == <<"|">>
LitKey == <<"k", "e", "y", "=">>
LitLength == <<"l", "e", "n", "g", "t", "h", "=">>
LitColor == <<"c", "o", "l", "o", "r", "=">>
LitHref == <<"h", "r", "e", "f", "=">>
LitTerminal == <<"t", "e", "r", "m", "i", "n", "a", "l", "=">>
LitShell == <<" ", "s", "h", "e", "l", "l", "=">>
LitParam == <<" ", "p", "a", "r", "a", "m">>
LitImage == <<"i", "m", "a", "g", "e">>
LitTemplateImage == <<"t", "e", "m", "p", "l", "a", "t", "e", "I", "m", "a", "g", "e">>
LitRefresh == <<"r", "e", "f", "r", "e", "s", "h", "=">>
LitTrim == <<"t", "r", "i", "m", "=", "f", "a", "l", "s", "e">>
LitAlternate == <<" ", "a", "l", "t", "e", "r", "n", "a", "t", "e", "=", "t", "r", "u", "e">>
LitTrue == <<"t", "r", "u", "e">>
LitFalse == <<"f", "a", "l", "s", "e">>
LitNewline == <<"\n">>
LitSpace == <<" ">>

(***************************************************************************)
(* The formatting verbs and library calls renderSelf uses.                 *)
(***************************************************************************)
Digits == <<"0", "1", "2", "3", "4", "5", "6", "7", "8", "9">>

\* fmt's %d of a uint
RECURSIVE FormatUint(_)
FormatUint(n) ==
    IF n < 10 THEN <<Digits[n + 1]>>
    ELSE FormatUint(n \div 10) \o <<Digits[(n % 10) + 1]>>

\* fmt's %t
FormatBool(b) == IF b THEN LitTrue ELSE LitFalse

\* a variant of QuoteRune that escapes nothing, as "%s" between quotes would
QuoteRuneVerbatim(c) == <<c>>

\* The runes of the model that strconv.IsPrint rejects, by code point.  TLA+ has
\* a one-character string for tab, newline, form feed and carriage return; the
\* other ones are written by name.
UnprintableRunes ==
    [c \in {"\t", "\n", "\f", "\r", "BEL", "BS", "VT", "ESC", "DEL", "NBSP", "ZWSP", "TAG"} |->
        CASE c = "BEL" -> 7
          [] c = "BS" -> 8
          [] c = "\t" -> 9
          [] c = "\n" -> 10
          [] c = "VT" -> 11
          [] c = "\f" -> 12
          [] c = "\r" -> 13
          [] c = "ESC" -> 27
          [] c = "DEL" -> 127
          [] c = "NBSP" -> 160
          [] c = "ZWSP" -> 8203
          [] c = "TAG" -> 917505]

\* the bytes of the model that are no UTF-8 encoding of a rune
InvalidBytes == [c \in {"0xFF"} |-> 255]

\* strconv.IsPrint, on the runes of the model
IsPrint(c) == c \notin DOMAIN UnprintableRunes

LowerHex == <<"0", "1", "2", "3", "4", "5", "6", "7", "8", "9", "a", "b", "c", "d", "e", "f">>

\* the last width hexadecimal digits of n
RECURSIVE Hex(_, _)
Hex(n, width) ==
    IF width = 0 THEN <<>> ELSE Hex(n \div 16, width - 1) \o <<LowerHex[(n % 16) + 1]>>

\* one rune of strconv.Quote: an invalid byte as \xhh; a backslash before the quote
\* and the backslash; a printable rune as it is; the control characters that have
\* a letter; the other ones below ' ' and DEL as \xhh; the other runes as \uhhhh
\* or \Uhhhhhhhh
QuoteRune(c) ==
    IF c \in DOMAIN InvalidBytes THEN <<"\\", "x">> \o Hex(InvalidBytes[c], 2)
    ELSE IF c \in {"\"", "\\"} THEN <<"\\", c>>
    ELSE IF IsPrint(c) THEN <<c>>
    ELSE
        LET r == UnprintableRunes[c]
        IN  CASE r = 7 -> <<"\\", "a">>
              [] r = 8 -> <<"\\", "b">>
              [] r = 12 -> <<"\\", "f">>
              [] r = 10 -> <<"\\", "n">>
              [] r = 13 -> <<"\\", "r">>
              [] r = 9 -> <<"\\", "t">>
              [] r = 11 -> <<"\\", "v">>
              [] OTHER ->
                    IF r < 32 \/ r = 127 THEN <<"\\", "x">> \o Hex(r, 2)
                    ELSE IF r < 65536 THEN <<"\\", "u">> \o Hex(r, 4)
                    ELSE <<"\\", "U">> \o Hex(r, 8)

RECURSIVE QuoteBody(_)
QuoteBody(s) ==
    IF s = <<>> THEN <<>> ELSE QuoteRune(Head(s)) \o QuoteBody(Tail(s))

\* fmt's %q of a string: strconv.Quote
FormatQuoted(s) == <<"\"">> \o QuoteBody(s) \o <<"\"">>

\* strings.Repeat
RECURSIVE Repeat(_, _)
Repeat(s, n) == IF n = 0 THEN <<>> ELSE s \o Repeat(s, n - 1)

\* strings.Join
RECURSIVE Join(_, _)
Join(parts, sep) ==
    IF parts = <<>> THEN <<>>
    ELSE IF Len(parts) = 1 THEN parts[1]
    ELSE parts[1] \o sep \o Join(Tail(parts), sep)

\* the alphabet of base64.StdEncoding
Base64Alphabet ==
    <<"A", "B", "C", "D", "E", "F", "G", "H", "I", "J", "K", "L", "M",
      "N", "O", "P", "Q", "R", "S", "T", "U", "V", "W", "X", "Y", "Z",
      "a", "b", "c", "d", "e", "f", "g", "h", "i", "j", "k", "l", "m",
      "n", "o", "p", "q", "r", "s", "t", "u", "v", "w", "x", "y", "z",
      "0", "1", "2", "3", "4", "5", "6", "7", "8", "9", "+", "/">>

Base64Char(v) == Base64Alphabet[v + 1]

\* base64.StdEncoding.EncodeToString: each group of three bytes gives four
\* characters of six bits; a last group of one or two bytes is filled with zero
\* bits and ends with "==" or "="
Base64Encode(b) ==
    [j \in 1..(4 * ((Len(b) + 2) \div 3)) |->
        LET at == 3 * ((j - 1) \div 4)
            k == (j - 1) % 4
            b2 == IF at + 2 <= Len(b) THEN b[at + 2] ELSE 0
            b3 == IF at + 3 <= Len(b) THEN b[at + 3] ELSE 0
            v == b[at + 1] * 65536 + b2 * 256 + b3
        IN  IF k = 0 THEN Base64Char(v \div 262144)
            ELSE IF k = 1 THEN Base64Char((v \div 4096) % 64)
            ELSE IF k = 2 THEN (IF at + 2 <= Len(b) THEN Base64Char((v \div 64) % 64) ELSE "=")
            ELSE (IF at + 3 <= Len(b) THEN Base64Char(v % 64) ELSE "=")]

(***************************************************************************)
(* The data model: Style, Action, MenuItem, Separator.                     *)
(***************************************************************************)
\* a nil *MenuItem; the MenuItems have the addresses 1, 2, ...
NilItem == 0
\* a nil io.Reader
NilReader == "nil"

NoAction == [type |-> "nil"]
HrefAction(uri) == [type |-> "HrefAction", URI |-> uri]
ShellAction(command, args, openTerminal) ==
    [type |-> "ShellAction", Command |-> command, Args |-> args,
     OpenTerminal |-> openTerminal]

\* NewShellAction(command, args...)
NewShellAction(command, args) == ShellAction(command, args, FALSE)

\* ShellAction.WithTerminal: a copy with OpenTerminal set
WithTerminal(sa) == [sa EXCEPT !.OpenTerminal = TRUE]

\* NewHrefAction(uri)
NewHrefAction(uri) == HrefAction(uri)

Style(maxLength, color, iconImageTemplate) ==
    [MaxLength |-> maxLength, Color |-> color, IconImageTemplate |-> iconImageTemplate]

\* NewMenuItem(title): every other field has Go's zero value
NewMenuItem(title) ==
    [kind |-> "MenuItem", Title |-> title, Icon |-> NilReader,
     Style |-> Style(0, <<>>, FALSE), Shortcut |-> <<>>, Action |-> NoAction,
     Refresh |-> FALSE, Alt |-> NilItem, SubMenu |-> <<>>]

\* Separator{}: it has no field; the record keeps the shape of the heap uniform
Separator ==
    [kind |-> "Separator", Title |-> <<>>, Icon |-> NilReader,
     Style |-> Style(0, <<>>, FALSE), Shortcut |-> <<>>, Action |-> NoAction,
     Refresh |-> FALSE, Alt |-> NilItem, SubMenu |-> <<>>]

(***************************************************************************)
(* renderSelf.  icon is the []byte io.ReadAll(m.Icon) returned; it is read *)
(* only when m.Icon is not nil.                                            *)
(***************************************************************************)
\* the ShellAction case of the switch
RECURSIVE ShellParams(_, _, _)
ShellParams(part, args, i) ==
    IF i > Len(args) THEN part
    ELSE ShellParams(part \o LitParam \o FormatUint(i) \o <<"=", "'">> \o args[i] \o <<"'">>,
                     args, i + 1)

ShellPart(action) ==
    ShellParams(LitTerminal \o FormatBool(action.OpenTerminal)
                    \o LitShell \o FormatQuoted(action.Command),
                action.Args, 1)

ActionParts(m) ==
    IF m.Action.type = "HrefAction" THEN <<LitHref \o m.Action.URI>>
    ELSE IF m.Action.type = "ShellAction" THEN <<ShellPart(m.Action)>>
    ELSE <<>>

ImageType(m) == IF m.Style.IconImageTemplate THEN LitTemplateImage ELSE LitImage

IconParts(m, icon) ==
    IF m.Icon # NilReader THEN <<ImageType(m) \o <<"=">> \o Base64Encode(icon)>>
    ELSE <<>>

\* a variant of MenuItemParts that appends color= before length=
MenuItemPartsColorFirst(m, icon) ==
    <<m.Title \o LitBar>>
    \o (IF m.Shortcut # <<>> THEN <<LitKey \o m.Shortcut>> ELSE <<>>)
    \o (IF m.Style.Color # <<>> THEN <<LitColor \o m.Style.Color>> ELSE <<>>)
    \o (IF m.Style.MaxLength > 0 THEN <<LitLength \o FormatUint(m.Style.MaxLength)>> ELSE <<>>)
    \o ActionParts(m)
    \o IconParts(m, icon)
    \o <<LitRefresh \o FormatBool(m.Refresh), LitTrim>>

\* the parts of a MenuItem's line, in the order renderSelf appends them
MenuItemParts(m, icon) ==
    <<m.Title \o LitBar>>
    \o (IF m.Shortcut # <<>> THEN <<LitKey \o m.Shortcut>> ELSE <<>>)
    \o (IF m.Style.MaxLength > 0 THEN <<LitLength \o FormatUint(m.Style.MaxLength)>> ELSE <<>>)
    \o (IF m.Style.Color # <<>> THEN <<LitColor \o m.Style.Color>> ELSE <<>>)
    \o ActionParts(m)
    \o IconParts(m, icon)
    \o <<LitRefresh \o FormatBool(m.Refresh), LitTrim>>

renderSelf(m, icon) ==
    IF m.kind = "Separator" THEN LitSeparator
    ELSE Join(MenuItemParts(m, icon), LitSpace)

(***************************************************************************)
(* renderAlt and children, of both XbarElement variants.                   *)
(***************************************************************************)
\* h is the heap, el an element of it; icon is what io.ReadAll(el.Alt.Icon) returned
renderAlt(h, el, icon) ==
    IF el.kind = "Separator" THEN <<>>
    ELSE IF el.Alt = NilItem THEN <<>>
    ELSE renderSelf(h[el.Alt], icon)

\* a variant of children that also returns the Alt item
childrenAndAlt(el) ==
    IF el.kind = "Separator" THEN <<>>
    ELSE el.SubMenu \o (IF el.Alt # NilItem THEN <<el.Alt>> ELSE <<>>)

\* Separator.children returns nil, MenuItem.children its SubMenu in order
children(el) == IF el.kind = "Separator" THEN <<>> ELSE el.SubMenu

(***************************************************************************)
(* The state.                                                              *)
(*   heap     the MenuItems and Separators the caller built, by address    *)
(*   plugin   per goroutine, the Plugin it renders: Title and Elements     *)
(*   readers  the io.Readers used as icons: a bytes.Reader has its bytes s *)
(*            and its read offset i, an errReader fails every Read         *)
(*   run      per goroutine, the RunW call in progress: where it is (pc,   *)
(*            idx, stack of printElement frames, rd: the icon read in      *)
(*            progress), what it wrote to w (out), how many Write calls it *)
(*            made (writes), how it ended (ret), the calls made (calls),   *)
(*            what the earlier calls that returned nil wrote (prev), the   *)
(*            builder calls made on the Plugin and its items (builds) and  *)
(*            how many of them were made when the call started (since)     *)
(***************************************************************************)
VARIABLES heap, plugin, readers, run

vars == <<heap, plugin, readers, run>>

\* a variant of printElementSteps that writes the alt line before the children
printElementStepsAltFirst == <<"self", "alt", "children">>

\* the order of printElement's body: the node's line, the children, the alt line
printElementSteps == <<"self", "children", "alt">>

\* a variant of ChildLevel that passes level on unchanged
ChildLevelSame(level) == level

\* level+1 of the recursive call
ChildLevel(level) == level + 1

\* strings.Repeat("--", level)
Prefix(level) == Repeat(LitIndent, level)

\* the level RunW passes for a top-level element
TopLevel == 0

\* a call of printElement(w, el, level), about to run its first statement
Frame(el, level) == [el |-> el, level |-> level, step |-> 1, next |-> 1]

FrameStep(f) == printElementSteps[f.step]

\* Runs the statements of the frames on st that write nothing: the children
\* loop calling printElement, renderAlt returning "" for a nil Alt, return nil.
\* It stops at a frame that is about to render a line, or with no frame left.
RECURSIVE Settle(_, _)
Settle(h, st) ==
    IF st = <<>> THEN <<>>
    ELSE
        LET top == st[Len(st)]
            rest == SubSeq(st, 1, Len(st) - 1)
            el == h[top.el]
        IN  IF top.step > Len(printElementSteps) THEN Settle(h, rest)
            ELSE IF FrameStep(top) = "self" THEN st
            ELSE IF FrameStep(top) = "children" THEN
                IF top.next <= Len(children(el))
                THEN Settle(h, rest \o <<[top EXCEPT !.next = @ + 1],
                                        Frame(children(el)[top.next], ChildLevel(top.level))>>)
                ELSE Settle(h, rest \o <<[top EXCEPT !.step = @ + 1]>>)
            ELSE IF el.kind = "MenuItem" /\ el.Alt # NilItem THEN st
            ELSE Settle(h, rest \o <<[top EXCEPT !.step = @ + 1]>>)

\* the frames once the top frame has finished its current statement
StepDone(h, st) ==
    Settle(h, SubSeq(st, 1, Len(st) - 1) \o <<[st[Len(st)] EXCEPT !.step = @ + 1]>>)

\* renderSelf has not called io.ReadAll
NoRead == [st |-> "none"]

\* io.ReadAll starts with b := make([]byte, 0, 512)
ReadAllCap == 512

\* the size classes of the allocator from 512 to 2048 bytes
SizeClasses == {512, 576, 640, 704, 768, 896, 1024, 1152, 1280, 1408, 1536, 1792, 2048}

\* the capacity of b after append(b, 0) on a full b of 256 bytes or more: a quarter
\* of the capacity and 192 bytes more, rounded up to a size class
GrowCap(cap) ==
    LET want == cap + ((cap + 768) \div 4)
    IN  CHOOSE c \in SizeClasses : c >= want /\ \A d \in SizeClasses : d >= want => c <= d

\* the buffer and the capacity of the io.ReadAll in progress
ReadBuf(rd) == IF rd.st = "none" THEN <<>> ELSE rd.b
ReadCap(rd) == IF rd.st = "none" THEN ReadAllCap ELSE rd.cap

Min(a, b) == IF a <= b THEN a ELSE b

\* RunW's for loop over p.Elements, after printElement returned nil for Elements[i]
\* or, with i = 0, before the first one
NextElement(p, r, i) ==
    IF i < Len(p.Elements)
    THEN [r EXCEPT !.pc = "walk", !.idx = i + 1,
                   !.stack = <<Frame(p.Elements[i + 1], TopLevel)>>, !.rd = NoRead]
    ELSE [r EXCEPT !.pc = "returned", !.ret = "nil", !.stack = <<>>, !.rd = NoRead]

\* the walk goes on after a line was written by the top frame
Continue(h, p, r) ==
    LET st == StepDone(h, r.stack)
    IN  IF st # <<>> THEN [r EXCEPT !.stack = st, !.rd = NoRead]
        ELSE NextElement(p, r, r.idx)

\* the call returns err: the failed Write is the last
ReturnErr(r) == [r EXCEPT !.pc = "returned", !.ret = "err", !.stack = <<>>, !.rd = NoRead]

\* the MenuItem whose renderSelf runs next in goroutine g, or NilItem
CurItem(g) ==
    LET r == run[g]
    IN  IF r.pc = "title" THEN plugin[g].Title
        ELSE IF r.pc = "walk" THEN
            LET top == r.stack[Len(r.stack)]
            IN  IF FrameStep(top) = "self" THEN top.el ELSE heap[top.el].Alt
        ELSE NilItem

\* renderSelf is at io.ReadAll(m.Icon)
NeedsIcon(g) ==
    /\ CurItem(g) # NilItem
    /\ heap[CurItem(g)].kind = "MenuItem"
    /\ heap[CurItem(g)].Icon # NilReader
    /\ run[g].rd.st # "done"

\* what io.ReadAll returned to the renderSelf in progress
IconBytes(g) == IF run[g].rd.st = "done" THEN run[g].rd.b ELSE <<>>

\* a variant of AfterTitle without the test of len(p.Elements)
AfterTitleAlwaysSeparator(p, r) == [r EXCEPT !.pc = "sep", !.rd = NoRead]

\* RunW after the title line: if len(p.Elements) > 0 the "---" line is next
AfterTitle(p, r) ==
    IF Len(p.Elements) > 0 THEN [r EXCEPT !.pc = "sep", !.rd = NoRead]
    ELSE NextElement(p, r, 0)

\* a Write that succeeded
Written(r, line) == [r EXCEPT !.out = Append(@, line), !.writes = @ + 1]

\* a variant of Failed that drops the error and goes on
FailedAndWentOn(r) == [r EXCEPT !.writes = @ + 1]

\* a Write that failed: if err != nil { return err }, up to RunW's caller
Failed(r) == ReturnErr([r EXCEPT !.writes = @ + 1])

(***************************************************************************)
(* The actions.                                                            *)
(***************************************************************************)
\* p.RunW(w) is called, with a w that holds nothing yet: a first render, or one
\* more after a render that returned nil, returned an error, or panicked and was
\* recovered by the caller.  RunW keeps nothing from one call to the next.
RunW(g) ==
    /\ run[g].pc \in {"idle", "returned"}
    /\ run[g].calls < MaxCalls
    /\ run' = [run EXCEPT ![g] =
                 [pc |-> "title", idx |-> 0, stack |-> <<>>, rd |-> NoRead,
                  out |-> <<>>, writes |-> 0, ret |-> "none",
                  calls |-> run[g].calls + 1,
                  prev |-> IF run[g].pc = "returned" /\ run[g].ret = "nil"
                           THEN Append(run[g].prev, [out |-> run[g].out, since |-> run[g].since])
                           ELSE run[g].prev,
                  builds |-> run[g].builds, since |-> run[g].builds]]
    /\ UNCHANGED <<heap, plugin, readers>>

\* io.ReadAll(m.Icon) on a bytes.Reader.  A Read of ReadAll's loop loads r.i three
\* times, and the Reader is not locked: another goroutine can run between any two
\* of the steps.  First step of a Read: if r.i >= len(r.s) it returns io.EOF, and
\* ReadAll returns the bytes it has
IconLoad(g) ==
    /\ NeedsIcon(g)
    /\ run[g].rd.st \in {"none", "reading"}
    /\ LET rdr == readers[heap[CurItem(g)].Icon]
           b == ReadBuf(run[g].rd)
       IN  /\ rdr.kind = "bytes.Reader"
           /\ run' = [run EXCEPT ![g].rd =
                        IF rdr.i >= Len(rdr.s) THEN [st |-> "done", b |-> b]
                        ELSE [st |-> "compared", b |-> b, cap |-> ReadCap(run[g].rd)]]
    /\ UNCHANGED <<heap, plugin, readers>>

\* second step: n = copy(b[len(b):cap(b)], r.s[r.i:]), with the r.i in memory now.
\* An r.i beyond len(r.s) makes the slice expression panic, and the panic leaves
\* renderSelf and RunW
IconCopy(g) ==
    /\ run[g].rd.st = "compared"
    /\ LET rdr == readers[heap[CurItem(g)].Icon]
           rd == run[g].rd
           n == Min(rd.cap - Len(rd.b), Len(rdr.s) - rdr.i)
       IN  run' = [run EXCEPT ![g] =
                     IF rdr.i > Len(rdr.s)
                     THEN [@ EXCEPT !.pc = "returned", !.ret = "panic", !.stack = <<>>,
                                    !.rd = NoRead]
                     ELSE [@ EXCEPT !.rd = [st |-> "copied", n |-> n, cap |-> rd.cap,
                                            b |-> rd.b \o SubSeq(rdr.s, rdr.i + 1, rdr.i + n)]]]
    /\ UNCHANGED <<heap, plugin, readers>>

\* third step: r.i += n loads r.i and adds n
IconAdd(g) ==
    /\ run[g].rd.st = "copied"
    /\ LET rdr == readers[heap[CurItem(g)].Icon]
       IN  run' = [run EXCEPT ![g].rd = [@ EXCEPT !.st = "added", !.n = rdr.i + @]]
    /\ UNCHANGED <<heap, plugin, readers>>

\* fourth step: r.i += n stores the sum, and Read returns n.  ReadAll grows a
\* full buffer and calls Read again
IconStore(g) ==
    /\ run[g].rd.st = "added"
    /\ LET name == heap[CurItem(g)].Icon
           rd == run[g].rd
       IN  /\ readers' = [readers EXCEPT ![name].i = rd.n]
           /\ run' = [run EXCEPT ![g].rd =
                        [st |-> "reading", b |-> rd.b,
                         cap |-> IF Len(rd.b) = rd.cap THEN GrowCap(rd.cap) ELSE rd.cap]]
    /\ UNCHANGED <<heap, plugin>>

\* a variant of IconPanic that drops the error and renders the item with no bytes
IconErrorSkipped(g) ==
    /\ NeedsIcon(g)
    /\ run[g].rd.st = "none"
    /\ readers[heap[CurItem(g)].Icon].kind = "errReader"
    /\ run' = [run EXCEPT ![g].rd = [st |-> "done", b |-> <<>>]]
    /\ UNCHANGED <<heap, plugin, readers>>

\* io.ReadAll returns an error: renderSelf panics, and the panic leaves RunW
IconPanic(g) ==
    /\ NeedsIcon(g)
    /\ run[g].rd.st = "none"
    /\ readers[heap[CurItem(g)].Icon].kind = "errReader"
    /\ run' = [run EXCEPT ![g] =
                 [@ EXCEPT !.pc = "returned", !.ret = "panic", !.stack = <<>>, !.rd = NoRead]]
    /\ UNCHANGED <<heap, plugin, readers>>

\* fmt.Fprintln(w, p.Title.renderSelf())
WriteTitle(g) ==
    /\ run[g].pc = "title"
    /\ ~NeedsIcon(g)
    /\ LET line == renderSelf(heap[plugin[g].Title], IconBytes(g)) \o LitNewline
       IN  \/ run' = [run EXCEPT ![g] = AfterTitle(plugin[g], Written(@, line))]
           \/ run' = [run EXCEPT ![g] = Failed(@)]
    /\ UNCHANGED <<heap, plugin, readers>>

\* fmt.Fprintln(w, "---")
WriteSeparator(g) ==
    /\ run[g].pc = "sep"
    /\ \/ run' = [run EXCEPT ![g] =
                    NextElement(plugin[g], Written(@, LitSeparator \o LitNewline), 0)]
       \/ run' = [run EXCEPT ![g] = Failed(@)]
    /\ UNCHANGED <<heap, plugin, readers>>

\* printElement: fmt.Fprintf(w, "%s%s\n", prefix, el.renderSelf())
WriteSelf(g) ==
    /\ run[g].pc = "walk"
    /\ FrameStep(run[g].stack[Len(run[g].stack)]) = "self"
    /\ ~NeedsIcon(g)
    /\ LET top == run[g].stack[Len(run[g].stack)]
           line == Prefix(top.level) \o renderSelf(heap[top.el], IconBytes(g)) \o LitNewline
       IN  \/ run' = [run EXCEPT ![g] = Continue(heap, plugin[g], Written(@, line))]
           \/ run' = [run EXCEPT ![g] = Failed(@)]
    /\ UNCHANGED <<heap, plugin, readers>>

\* printElement: alt := el.renderAlt(), and when alt != "",
\* fmt.Fprintf(w, "%s%s alternate=true\n", prefix, alt)
WriteAlt(g) ==
    /\ run[g].pc = "walk"
    /\ FrameStep(run[g].stack[Len(run[g].stack)]) = "alt"
    /\ ~NeedsIcon(g)
    /\ LET top == run[g].stack[Len(run[g].stack)]
           alt == renderAlt(heap, heap[top.el], IconBytes(g))
           line == Prefix(top.level) \o alt \o LitAlternate \o LitNewline
       IN  IF alt # <<>>
           THEN \/ run' = [run EXCEPT ![g] = Continue(heap, plugin[g], Written(@, line))]
                \/ run' = [run EXCEPT ![g] = Failed(@)]
           ELSE run' = [run EXCEPT ![g] = Continue(heap, plugin[g], @)]
    /\ UNCHANGED <<heap, plugin, readers>>

\* the goroutine of a program that renders in one goroutine
Main == 1

Next ==
    \/ RunW(Main)
    \/ IconLoad(Main)
    \/ IconCopy(Main)
    \/ IconAdd(Main)
    \/ IconStore(Main)
    \/ IconPanic(Main)
    \/ WriteTitle(Main)
    \/ WriteSeparator(Main)
    \/ WriteSelf(Main)
    \/ WriteAlt(Main)

(***************************************************************************)
(* The trees a caller builds with NewPlugin, WithText, WithElements,       *)
(* NewMenuItem, WithSubMenu, WithAlt and WithIcon.  Address 1 is the title *)
(* item; item k > 1 is appended to p.Elements, or to the SubMenu of an     *)
(* earlier item, or set as the Alt of an earlier item, the title included. *)
(***************************************************************************)
\* the bytes of assets/Status_Available.png, cut to the first bytes of a PNG file
StatusAvailableBytes == <<137, 80, 78, 71>>

NewReaders ==
    [name \in {"IconStatusAvailable", "errReader"} |->
        IF name = "IconStatusAvailable"
        THEN [kind |-> "bytes.Reader", s |-> StatusAvailableBytes, i |-> 0]
        ELSE [kind |-> "errReader", s |-> <<>>, i |-> 0]]

InElements == [to |-> 0, link |-> "Elements"]

Links(n) ==
    {InElements} \cup {[to |-> j, link |-> l] : j \in 1..n, l \in {"SubMenu", "Alt"}}

\* where each of the items 2..n+1 is put; WithAlt keeps one Alt per item
Attachments(n) ==
    {a \in [2..(n + 1) -> Links(n)] :
        /\ \A k \in 2..(n + 1) : a[k].to < k
        /\ \A j, k \in 2..(n + 1) : (j # k /\ a[j].link = "Alt" /\ a[k].link = "Alt")
                                        => a[j].to # a[k].to}

\* the addresses of S in the order they were appended
RECURSIVE InOrder(_)
InOrder(S) ==
    IF S = {} THEN <<>>
    ELSE LET m == CHOOSE x \in S : \A y \in S : x <= y
         IN  <<m>> \o InOrder(S \ {m})

Attached(a, k, link) == {j \in DOMAIN a : a[j].to = k /\ a[j].link = link}

\* the top-level elements that may be a Separator{}: nothing hangs from them
MaySeparate(a) ==
    {k \in DOMAIN a : a[k].link = "Elements" /\ \A j \in DOMAIN a : a[j].to # k}

ItemTitle(k) == IF k = 1 THEN <<"T">> ELSE <<"n">> \o FormatUint(k)

\* NewPlugin gives the title item Style{IconImageTemplate: true}
BuildHeap(n, a, seps, icon) ==
    [k \in 1..(n + 1) |->
        IF k \in seps THEN Separator
        ELSE [NewMenuItem(ItemTitle(k)) EXCEPT
                !.SubMenu = InOrder(Attached(a, k, "SubMenu")),
                !.Alt = IF Attached(a, k, "Alt") = {} THEN NilItem
                        ELSE CHOOSE j \in Attached(a, k, "Alt") : TRUE,
                !.Icon = icon[k],
                !.Style = Style(0, <<>>, k = 1)]]

BuildPlugin(a) == [Title |-> 1, Elements |-> InOrder(Attached(a, 0, "Elements"))]

IdleRun ==
    [pc |-> "idle", idx |-> 0, stack |-> <<>>, rd |-> NoRead, out |-> <<>>,
     writes |-> 0, ret |-> "none", calls |-> 0, prev |-> <<>>, builds |-> 0, since |-> 0]

\* trees of up to MaxNodes elements with Separators and no icon
InitWalk ==
    \E n \in 0..MaxNodes : \E a \in Attachments(n) : \E seps \in SUBSET MaySeparate(a) :
        /\ heap = BuildHeap(n, a, seps, [k \in 1..(n + 1) |-> NilReader])
        /\ plugin = [g \in {1} |-> BuildPlugin(a)]
        /\ readers = NewReaders
        /\ run = [g \in {1} |-> IdleRun]

\* trees of up to MaxIconNodes items, each with or without an icon
InitIcon ==
    \E n \in 0..MaxIconNodes : \E a \in Attachments(n) :
    \E icon \in [1..(n + 1) -> {NilReader, "IconStatusAvailable", "errReader"}] :
        /\ heap = BuildHeap(n, a, {}, icon)
        /\ plugin = [g \in {1} |-> BuildPlugin(a)]
        /\ readers = NewReaders
        /\ run = [g \in {1} |-> IdleRun]

Init == InitWalk \/ InitIcon

Spec == Init /\ [][Next]_vars

(***************************************************************************)
(* renderSelf on its own: a Plugin with no element whose title item has    *)
(* any combination of the fields, rendered by RunW as the title line.      *)
(***************************************************************************)
\* WithShortcut("b", ShiftKey): strings.Join of the modifiers and the key with "+"
ShortcutShiftB == <<"s", "h", "i", "f", "t", "+", "b">>

ColorRed == <<"r", "e", "d">>

RenderCommands ==
    {<<"s", "a", "y">>, <<"a", "\"", "b">>, <<"a", "\\">>, <<"a", "'", "b">>, <<"a", "\n">>,
     <<"a", "\t", "\r">>, <<"BEL", "BS", "\f", "VT">>, <<"ESC", "DEL", "0xFF">>,
     <<"NBSP", "ZWSP", "TAG">>}

RenderArgs == {<<"h", "i">>, <<"i", "t", "'", "s">>}

RenderArgLists == UNION {[1..n -> RenderArgs] : n \in 0..MaxArgs}

RenderActions ==
    {NoAction, HrefAction(<<"u", ":", "/">>)}
    \cup {ShellAction(c, a, t) : c \in RenderCommands, a \in RenderArgLists, t \in BOOLEAN}

InitRender ==
    \E shortcut \in {<<>>, ShortcutShiftB}, maxLength \in {0, MaxMaxLength},
       color \in {<<>>, ColorRed}, action \in RenderActions,
       icon \in {NilReader, "IconStatusAvailable"}, template \in BOOLEAN,
       refresh \in BOOLEAN :
        /\ heap = <<[NewMenuItem(<<"T">>) EXCEPT
                        !.Shortcut = shortcut, !.Style = Style(maxLength, color, template),
                        !.Action = action, !.Icon = icon, !.Refresh = refresh]>>
        /\ plugin = [g \in {1} |-> [Title |-> 1, Elements |-> <<>>]]
        /\ readers = NewReaders
        /\ run = [g \in {1} |-> IdleRun]

NextRender ==
    \/ RunW(Main)
    \/ IconLoad(Main)
    \/ IconCopy(Main)
    \/ IconAdd(Main)
    \/ IconStore(Main)
    \/ WriteTitle(Main)

SpecRender == InitRender /\ [][NextRender]_vars

(***************************************************************************)
(* Two goroutines, each rendering a Plugin of its own: a title item and    *)
(* one item in Elements.  Each item has no icon, or the package's          *)
(* IconStatusAvailable; a title item may also have a bytes.Reader of the   *)
(* caller whose bytes do not fit io.ReadAll's first buffer.  Both have     *)
(* entered RunW: the two renders are in progress together from the first   *)
(* state on.                                                               *)
(***************************************************************************)
\* a goroutine that has called p.RunW(w) and has run no statement of it yet
StartedRun == [IdleRun EXCEPT !.pc = "title", !.calls = 1]

\* the length of the caller's image: four bytes more than ReadAllCap
BeakerLen == 516

\* bytes.NewReader(beakerImage), with the bytes of a PNG header and then any bytes
BeakerBytes ==
    [i \in 1..BeakerLen |->
        IF i <= Len(StatusAvailableBytes) THEN StatusAvailableBytes[i] ELSE (i * 7) % 256]

ConcReaders ==
    [name \in {"IconStatusAvailable", "beaker"} |->
        [kind |-> "bytes.Reader",
         s |-> IF name = "beaker" THEN BeakerBytes ELSE StatusAvailableBytes,
         i |-> 0]]

ConcIcons(k) ==
    IF k \in {1, 3} THEN {NilReader, "IconStatusAvailable", "beaker"}
    ELSE {NilReader, "IconStatusAvailable"}

InitConc ==
    \E icon \in [1..4 -> {NilReader, "IconStatusAvailable", "beaker"}] :
        /\ \A k \in 1..4 : icon[k] \in ConcIcons(k)
        /\ heap = [k \in 1..4 |->
                     [NewMenuItem(ItemTitle(k)) EXCEPT
                        !.Icon = icon[k], !.Style = Style(0, <<>>, k \in {1, 3})]]
        /\ plugin = [g \in {1, 2} |->
                       IF g = 1 THEN [Title |-> 1, Elements |-> <<2>>]
                       ELSE [Title |-> 3, Elements |-> <<4>>]]
        /\ readers = ConcReaders
        /\ run = [g \in {1, 2} |-> StartedRun]

NextConc ==
    \E g \in {1, 2} :
        \/ IconLoad(g)
        \/ IconCopy(g)
        \/ IconAdd(g)
        \/ IconStore(g)
        \/ WriteTitle(g)
        \/ WriteSeparator(g)
        \/ WriteSelf(g)

SpecConc == InitConc /\ [][NextConc]_vars

(***************************************************************************)
(* The builders.  A caller starts from NewPlugin() and calls the builders  *)
(* of the Plugin and of its MenuItems, before a render and between two     *)
(* renders; each builder changes the Plugin or the item it is called on.   *)
(* An item is attached once: WithElements, WithSubMenu and WithAlt are     *)
(* given an item that NewMenuItem has just made, or Separator{}.           *)
(***************************************************************************)
ShiftKey == <<"s", "h", "i", "f", "t">>

\* NewCopyAction(text)
NewCopyAction(text) ==
    ShellAction(<<"/", "b", "i", "n", "/", "b", "a", "s", "h">>,
                <<<<"-", "c">>,
                  <<"e", "c", "h", "o", " ", "-", "n", " ">> \o text
                      \o <<" ", "|", " ", "p", "b", "c", "o", "p", "y">>>>,
                FALSE)

\* WithShortcut(key, modifiers...): strings.Join(append(modStrings, key), "+")
Shortcut(key, modifiers) == Join(Append(modifiers, key), <<"+">>)

BuildTitles == {<<"T">>}
BuildIcons == {"IconStatusAvailable", "errReader"}
BuildStyles == {Style(MaxMaxLength, ColorRed, FALSE)}
BuildActions ==
    {NewHrefAction(<<"u", ":", "/">>),
     WithTerminal(NewShellAction(<<"s", "a", "y">>, <<<<"h", "i">>>>)),
     NewCopyAction(<<"x">>)}

\* the MenuItems a builder can be called on
MenuItems == {k \in DOMAIN heap : heap[k].kind = "MenuItem"}

\* the address of the item the next NewMenuItem makes
NewAddress == Len(heap) + 1

\* a builder call in goroutine g, which is not inside RunW, leaves the heap h and
\* the Plugin p
Build(g, h, p) ==
    /\ run[g].pc \in {"idle", "returned"}
    /\ run[g].builds < MaxBuilds
    /\ heap' = h
    /\ plugin' = [plugin EXCEPT ![g] = p]
    /\ run' = [run EXCEPT ![g].builds = @ + 1]
    /\ UNCHANGED readers

\* p.WithIcon(icon): p.Title = p.Title.WithIcon(icon)
PluginWithIcon(g) ==
    \E icon \in BuildIcons :
        Build(g, [heap EXCEPT ![plugin[g].Title].Icon = icon], plugin[g])

\* p.WithText(title)
WithText(g) ==
    \E title \in BuildTitles :
        Build(g, [heap EXCEPT ![plugin[g].Title].Title = title], plugin[g])

\* p.WithElements(el), el a new MenuItem or Separator{}
WithElements(g) ==
    \E el \in {NewMenuItem(ItemTitle(NewAddress)), Separator} :
        Build(g, Append(heap, el),
              [plugin[g] EXCEPT !.Elements = Append(@, NewAddress)])

\* m.WithStyle(style)
WithStyle(g) ==
    \E m \in MenuItems, style \in BuildStyles :
        Build(g, [heap EXCEPT ![m].Style = style], plugin[g])

\* m.WithRefresh()
WithRefresh(g) ==
    \E m \in MenuItems : Build(g, [heap EXCEPT ![m].Refresh = TRUE], plugin[g])

\* m.WithAction(action)
WithAction(g) ==
    \E m \in MenuItems, action \in BuildActions :
        Build(g, [heap EXCEPT ![m].Action = action], plugin[g])

\* m.WithHref(uri)
WithHref(g) ==
    \E m \in MenuItems :
        Build(g, [heap EXCEPT ![m].Action = NewHrefAction(<<"u", ":", "/">>)], plugin[g])

\* m.WithShell(command, args...)
WithShell(g) ==
    \E m \in MenuItems :
        Build(g, [heap EXCEPT ![m].Action = NewShellAction(<<"s", "a", "y">>, <<<<"h", "i">>>>)],
              plugin[g])

\* m.WithIcon(icon)
WithIcon(g) ==
    \E m \in MenuItems, icon \in BuildIcons :
        Build(g, [heap EXCEPT ![m].Icon = icon], plugin[g])

\* m.WithAlt(item), item a new MenuItem
WithAlt(g) ==
    \E m \in MenuItems :
        Build(g, [Append(heap, NewMenuItem(ItemTitle(NewAddress))) EXCEPT ![m].Alt = NewAddress],
              plugin[g])

\* m.WithShortcut("b", ShiftKey)
WithShortcut(g) ==
    \E m \in MenuItems :
        Build(g, [heap EXCEPT ![m].Shortcut = Shortcut(<<"b">>, <<ShiftKey>>)], plugin[g])

\* m.WithSubMenu(item), item a new MenuItem: append(m.SubMenu, item)
WithSubMenu(g) ==
    \E m \in MenuItems :
        Build(g, [Append(heap, NewMenuItem(ItemTitle(NewAddress))) EXCEPT
                    ![m].SubMenu = Append(@, NewAddress)],
              plugin[g])

\* NewPlugin(): a title item with no text and Style{IconImageTemplate: true}
NewPlugin == [Title |-> 1, Elements |-> <<>>]

InitBuild ==
    /\ heap = <<[NewMenuItem(<<>>) EXCEPT !.Style = Style(0, <<>>, TRUE)]>>
    /\ plugin = [g \in {1} |-> NewPlugin]
    /\ readers = NewReaders
    /\ run = [g \in {1} |-> IdleRun]

NextBuild ==
    \/ PluginWithIcon(Main)
    \/ WithText(Main)
    \/ WithElements(Main)
    \/ WithStyle(Main)
    \/ WithRefresh(Main)
    \/ WithAction(Main)
    \/ WithHref(Main)
    \/ WithShell(Main)
    \/ WithIcon(Main)
    \/ WithAlt(Main)
    \/ WithShortcut(Main)
    \/ WithSubMenu(Main)
    \/ RunW(Main)
    \/ IconLoad(Main)
    \/ IconCopy(Main)
    \/ IconAdd(Main)
    \/ IconStore(Main)
    \/ IconPanic(Main)
    \/ WriteTitle(Main)
    \/ WriteSeparator(Main)
    \/ WriteSelf(Main)
    \/ WriteAlt(Main)

SpecBuild == InitBuild /\ [][NextBuild]_vars

(***************************************************************************)
(* Reading the output back, and the shape of the tree: what the            *)
(* properties below are stated with.                                       *)
(***************************************************************************)
Range(f) == {f[i] : i \in DOMAIN f}

IsPrefix(s, t) == Len(s) <= Len(t) /\ SubSeq(t, 1, Len(s)) = s

IsSuffix(s, t) == Len(s) <= Len(t) /\ SubSeq(t, Len(t) - Len(s) + 1, Len(t)) = s

\* the number of '-' characters a line starts with
RECURSIVE LeadingDashes(_)
LeadingDashes(line) ==
    IF line # <<>> /\ Head(line) = "-" THEN 1 + LeadingDashes(Tail(line)) ELSE 0

\* a line without its leading '-' characters
Unindented(line) == SubSeq(line, LeadingDashes(line) + 1, Len(line))

\* the line is the encoding of item k: after the indent come its title and '|'
\* (each item of a tree has a title of its own)
IsLineOf(line, k) ==
    heap[k].kind = "MenuItem" /\ IsPrefix(heap[k].Title \o LitBar, Unindented(line))

\* the place of item k's line in the output o, 0 when o has no line of k
Pos(o, k) ==
    IF \E i \in 1..Len(o) : IsLineOf(o[i], k)
    THEN CHOOSE i \in 1..Len(o) : IsLineOf(o[i], k)
    ELSE 0

Elems(g) == Range(plugin[g].Elements)

\* the item whose SubMenu holds k, or NilItem
SubMenuOwner(k) ==
    IF \E j \in DOMAIN heap : k \in Range(heap[j].SubMenu)
    THEN CHOOSE j \in DOMAIN heap : k \in Range(heap[j].SubMenu)
    ELSE NilItem

\* printElement is called on k: k is in Elements, or in the SubMenu of such a node
RECURSIVE IsWalked(_, _)
IsWalked(g, k) ==
    \/ k \in Elems(g)
    \/ SubMenuOwner(k) # NilItem /\ IsWalked(g, SubMenuOwner(k))

Walked(g) == {k \in DOMAIN heap : IsWalked(g, k)}

\* the nesting level of a walked node: 0 in Elements, one more in a SubMenu
RECURSIVE Depth(_, _)
Depth(g, k) == IF k \in Elems(g) THEN 0 ELSE 1 + Depth(g, SubMenuOwner(k))

\* the nodes below k: its children, their children, ...
RECURSIVE Below(_)
Below(k) ==
    Range(heap[k].SubMenu)
    \cup UNION {Below(c) : c \in Range(heap[k].SubMenu)}

\* the items whose lines the subtrees of k's children produce: the nodes below k
\* and the Alt of each of them
SubtreeItems(k) == Below(k) \cup {heap[d].Alt : d \in {e \in Below(k) : heap[e].Alt # NilItem}}

\* the siblings that follow k: later in the same SubMenu, or later in Elements
Following(g, k) ==
    LET sibs == IF k \in Elems(g) THEN plugin[g].Elements
                ELSE heap[SubMenuOwner(k)].SubMenu
        at == CHOOSE i \in 1..Len(sibs) : sibs[i] = k
    IN  {sibs[i] : i \in (at + 1)..Len(sibs)}

Out == run[Main].out

\* C1 (alt after children): in the output of a walk, at every moment, the alt line
\* of a walked node k comes after k's own line and after every line of the subtrees
\* of k's children, all of which are written by then; it comes before the line of
\* any sibling that follows k; it has the indent of k's line, and it ends with
\* " alternate=true".
AltAfterChildren ==
    \A k \in Walked(Main) :
        (heap[k].kind = "MenuItem" /\ heap[k].Alt # NilItem) =>
            LET a == Pos(Out, heap[k].Alt)
            IN  /\ a > 0 =>
                    /\ 0 < Pos(Out, k) /\ Pos(Out, k) < a
                    /\ \A d \in SubtreeItems(k) : 0 < Pos(Out, d) /\ Pos(Out, d) < a
                    /\ LeadingDashes(Out[a]) = LeadingDashes(Out[Pos(Out, k)])
                    /\ IsSuffix(LitAlternate \o LitNewline, Out[a])
                /\ \A s \in Following(Main, k) :
                    (heap[s].kind = "MenuItem" /\ Pos(Out, s) > 0) => (0 < a /\ a < Pos(Out, s))
                /\ (run[Main].ret = "nil" /\ Pos(Out, k) > 0) => a > 0

\* a render returned nil for a tree in which a node with a child and an alt is
\* followed by a sibling
AltAfterChildrenWitness ==
    /\ run[Main].ret = "nil"
    /\ \E k \in Walked(Main) :
        /\ heap[k].kind = "MenuItem" /\ heap[k].Alt # NilItem
        /\ heap[k].SubMenu # <<>>
        /\ \E s \in Following(Main, k) : heap[s].kind = "MenuItem" /\ Pos(Out, s) > 0
        /\ Pos(Out, heap[k].Alt) > Pos(Out, heap[k].SubMenu[1])

\* C2 (depth invariant): the line of a walked node at depth d is d times "--" and
\* then its body, which starts with its title; the line of a child has two
\* characters of indent more than the line of its parent; a line that is no item's
\* is the separator "---" with no indent.
DepthInvariant ==
    /\ \A k \in Walked(Main) :
        Pos(Out, k) > 0 =>
            /\ LeadingDashes(Out[Pos(Out, k)]) = 2 * Depth(Main, k)
            /\ IsPrefix(Repeat(LitIndent, Depth(Main, k)) \o heap[k].Title \o LitBar,
                        Out[Pos(Out, k)])
            /\ \A c \in Range(heap[k].SubMenu) :
                Pos(Out, c) > 0 =>
                    LeadingDashes(Out[Pos(Out, c)]) = LeadingDashes(Out[Pos(Out, k)]) + 2
    /\ \A i \in 1..Len(Out) :
        (\A k \in DOMAIN heap : ~IsLineOf(Out[i], k)) => Out[i] = LitSeparator \o LitNewline

\* a node at depth 2 and its parent have their lines in the output
DepthInvariantWitness ==
    \E k \in Walked(Main) :
        /\ Depth(Main, k) = 2
        /\ Pos(Out, k) > 0
        /\ LeadingDashes(Out[Pos(Out, k)]) = 4
        /\ run[Main].ret = "nil"

\* C3 (write-failure abort): a step in which a Write fails (one more Write call,
\* no line more in the stream) leaves the lines written before as they were and
\* ends the call with the error as its result and no printElement frame left;
\* the error is returned only so; and after it the call takes no step: no Write
\* follows the failed one, the next step is a new call of RunW.
WriteFailureAbort ==
    [][/\ (run'[Main].writes = run[Main].writes + 1 /\ Len(run'[Main].out) = Len(Out)) =>
            /\ run'[Main].out = Out
            /\ run'[Main].pc = "returned" /\ run'[Main].ret = "err"
            /\ run'[Main].stack = <<>>
       /\ (run'[Main].ret = "err" /\ run[Main].ret # "err") =>
            (run'[Main].writes = run[Main].writes + 1 /\ run'[Main].out = Out)
       /\ run[Main].ret = "err" => run'[Main].calls = run[Main].calls + 1]_vars

\* a Write failed below the top level, after five lines were written
WriteFailureAbortWitness ==
    /\ run[Main].ret = "err"
    /\ run[Main].writes = Len(Out) + 1
    /\ Len(Out) >= 5
    /\ LeadingDashes(Out[Len(Out)]) = 4

\* C10 (separator after title): the first line is the title's, with no indent; a
\* second line is written only for a Plugin with elements, and is "---"; the third
\* line is the first element's, the elements' lines have no indent and come in the
\* order of Elements; a render that returned nil wrote the title line alone for a
\* Plugin with no element, and the "---" line and the elements' lines otherwise.
SeparatorAfterTitle ==
    LET els == plugin[Main].Elements
    IN  /\ Len(Out) >= 1 => IsPrefix(heap[plugin[Main].Title].Title \o LitBar, Out[1])
        /\ Len(Out) >= 2 => (Len(els) > 0 /\ Out[2] = LitSeparator \o LitNewline)
        /\ Len(Out) >= 3 =>
              IF heap[els[1]].kind = "Separator" THEN Out[3] = LitSeparator \o LitNewline
              ELSE Pos(Out, els[1]) = 3 /\ LeadingDashes(Out[3]) = 0
        /\ \A i, j \in 1..Len(els) :
              (i < j /\ heap[els[i]].kind = "MenuItem" /\ heap[els[j]].kind = "MenuItem"
                 /\ Pos(Out, els[j]) > 0) =>
                    /\ 0 < Pos(Out, els[i]) /\ Pos(Out, els[i]) < Pos(Out, els[j])
                    /\ LeadingDashes(Out[Pos(Out, els[j])]) = 0
        /\ run[Main].ret = "nil" =>
              IF Len(els) = 0 THEN Len(Out) = 1
              ELSE /\ Len(Out) >= 2 + Len(els)
                   /\ \A i \in 1..Len(els) :
                         heap[els[i]].kind = "MenuItem" => Pos(Out, els[i]) > 0

\* a render returned nil for a Plugin with two items in Elements
SeparatorAfterTitleWitness ==
    /\ run[Main].ret = "nil"
    /\ Len(plugin[Main].Elements) >= 2
    /\ Out[2] = LitSeparator \o LitNewline
    /\ Pos(Out, plugin[Main].Elements[2]) > 3

(***************************************************************************)
(* The line of a MenuItem as the field rules state it.                     *)
(***************************************************************************)
Field(present, text) == IF present THEN LitSpace \o text ELSE <<>>

\* the title and '|', then each field that is present after one space, in order;
\* actionText is the action's encoding, payload the text after the icon's '='
FieldsInOrder(m, actionText, payload) ==
    m.Title \o <<"|">>
    \o Field(m.Shortcut # <<>>, <<"k", "e", "y", "=">> \o m.Shortcut)
    \o Field(m.Style.MaxLength > 0,
             <<"l", "e", "n", "g", "t", "h", "=">> \o FormatUint(m.Style.MaxLength))
    \o Field(m.Style.Color # <<>>, <<"c", "o", "l", "o", "r", "=">> \o m.Style.Color)
    \o Field(m.Action.type # "nil", actionText)
    \o Field(m.Icon # NilReader,
             (IF m.Style.IconImageTemplate
              THEN <<"t", "e", "m", "p", "l", "a", "t", "e", "I", "m", "a", "g", "e">>
              ELSE <<"i", "m", "a", "g", "e">>) \o <<"=">> \o payload)
    \o LitSpace \o <<"r", "e", "f", "r", "e", "s", "h", "=">>
    \o (IF m.Refresh THEN <<"t", "r", "u", "e">> ELSE <<"f", "a", "l", "s", "e">>)
    \o LitSpace \o <<"t", "r", "i", "m", "=", "f", "a", "l", "s", "e">>

\* the payloads a render can give the icon of m: of all its bytes, or of none
Payloads(m) ==
    IF m.Icon = NilReader THEN {<<>>}
    ELSE {Base64Encode(readers[m.Icon].s), <<>>}

\* C8 (field order and presence): the line written for a MenuItem is its title and
\* '|', then key=, length=, color=, the action's encoding, image= or templateImage=,
\* refresh= and trim=false, each present field after a single space and an absent
\* one leaving nothing; with no optional field and Refresh false the line is
\* "<title>| refresh=false trim=false".
FieldOrderAndPresence ==
    Len(Out) >= 1 =>
        LET m == heap[plugin[Main].Title]
            action == IF m.Action.type = "nil" THEN <<>> ELSE ActionParts(m)[1]
        IN  /\ \E payload \in Payloads(m) :
                Out[1] = FieldsInOrder(m, action, payload) \o LitNewline
            /\ (/\ m.Shortcut = <<>> /\ m.Style.MaxLength = 0 /\ m.Style.Color = <<>>
                /\ m.Action.type = "nil" /\ m.Icon = NilReader /\ ~m.Refresh) =>
                    Out[1] = m.Title \o <<"|", " ", "r", "e", "f", "r", "e", "s", "h", "=",
                                          "f", "a", "l", "s", "e", " ", "t", "r", "i", "m",
                                          "=", "f", "a", "l", "s", "e", "\n">>

\* the line of an item with every optional field was written
FieldOrderAndPresenceWitness ==
    LET m == heap[plugin[Main].Title]
    IN  /\ Len(Out) = 1
        /\ m.Shortcut # <<>> /\ m.Style.MaxLength > 9 /\ m.Style.Color # <<>>
        /\ m.Action.type = "ShellAction" /\ m.Icon # NilReader /\ m.Refresh
        /\ m.Style.IconImageTemplate

\* the escape sequences of Go's string literals for the runes of the model that
\* are not printable, and for a byte that is no UTF-8
EscapeSequences ==
    [c \in {"\t", "\n", "\f", "\r", "BEL", "BS", "VT", "ESC", "DEL", "NBSP", "ZWSP", "TAG",
            "0xFF"} |->
        CASE c = "\t" -> <<"\\", "t">>
          [] c = "\n" -> <<"\\", "n">>
          [] c = "\f" -> <<"\\", "f">>
          [] c = "\r" -> <<"\\", "r">>
          [] c = "BEL" -> <<"\\", "a">>
          [] c = "BS" -> <<"\\", "b">>
          [] c = "VT" -> <<"\\", "v">>
          [] c = "ESC" -> <<"\\", "x", "1", "b">>
          [] c = "DEL" -> <<"\\", "x", "7", "f">>
          [] c = "NBSP" -> <<"\\", "u", "0", "0", "a", "0">>
          [] c = "ZWSP" -> <<"\\", "u", "2", "0", "0", "b">>
          [] c = "TAG" -> <<"\\", "U", "0", "0", "0", "e", "0", "0", "0", "1">>
          [] c = "0xFF" -> <<"\\", "x", "f", "f">>]

\* one character of a command as %q writes it
EscapedRune(c) ==
    IF c \in {"\"", "\\"} THEN <<"\\", c>>
    ELSE IF c \in DOMAIN EscapeSequences THEN EscapeSequences[c]
    ELSE <<c>>

RECURSIVE Flatten(_)
Flatten(ss) == IF ss = <<>> THEN <<>> ELSE Head(ss) \o Flatten(Tail(ss))

Escaped(s) == Flatten([i \in 1..Len(s) |-> EscapedRune(s[i])])

\* " param<i>='<arg>'" for each argument, i from 1, the argument verbatim
RECURSIVE ParamsFrom(_, _)
ParamsFrom(args, i) ==
    IF i > Len(args) THEN <<>>
    ELSE <<" ", "p", "a", "r", "a", "m">> \o FormatUint(i) \o <<"=", "'">> \o args[i]
         \o <<"'">> \o ParamsFrom(args, i + 1)

\* the shell action's encoding with command as the text between the double quotes
ShellText(a, command) ==
    <<"t", "e", "r", "m", "i", "n", "a", "l", "=">>
    \o (IF a.OpenTerminal THEN <<"t", "r", "u", "e">> ELSE <<"f", "a", "l", "s", "e">>)
    \o <<" ", "s", "h", "e", "l", "l", "=", "\"">> \o command \o <<"\"">>
    \o ParamsFrom(a.Args, 1)

\* C9 as stated (shell action encoding, nothing escaped): the command stands
\* verbatim between the double quotes, and each argument between single quotes.
ShellEncodingVerbatim ==
    (Len(Out) >= 1 /\ heap[plugin[Main].Title].Action.type = "ShellAction") =>
        LET m == heap[plugin[Main].Title]
        IN  \E payload \in Payloads(m) :
                Out[1] = FieldsInOrder(m, ShellText(m.Action, m.Action.Command), payload)
                         \o LitNewline

\* C9 as amended (shell action encoding): "terminal=<true|false> shell=" and the
\* command as %q writes it: between double quotes, with a backslash before each
\* double quote and each backslash of the command, and each character that is not
\* printable written as its escape sequence (\n, \t, \r, \a, \b, \f, \v, \xhh,
\* \uhhhh, \Uhhhhhhhh); a printable character stands as it is;
\* then " param<i>='<arg>'" for each argument, i from 1 in call order, the
\* argument verbatim, its quote characters included.
ShellEncodingQuoted ==
    (Len(Out) >= 1 /\ heap[plugin[Main].Title].Action.type = "ShellAction") =>
        LET m == heap[plugin[Main].Title]
        IN  \E payload \in Payloads(m) :
                Out[1] = FieldsInOrder(m, ShellText(m.Action, Escaped(m.Action.Command)),
                                       payload) \o LitNewline

\* the line of a shell action whose command holds a double quote, with two
\* arguments, one of them holding a single quote, was written
ShellEncodingQuotedWitness ==
    LET m == heap[plugin[Main].Title]
    IN  /\ Len(Out) = 1
        /\ m.Action.type = "ShellAction"
        /\ "\"" \in Range(m.Action.Command)
        /\ Len(m.Action.Args) = 2
        /\ "'" \in Range(m.Action.Args[2])

(***************************************************************************)
(* Icons: the payload of a rendered icon field, decoded.                   *)
(***************************************************************************)
\* the first place of pat in s, 0 when s does not hold it
FindSub(s, pat) ==
    LET at == {i \in 1..(Len(s) - Len(pat) + 1) : SubSeq(s, i, i + Len(pat) - 1) = pat}
    IN  IF at = {} THEN 0 ELSE CHOOSE i \in at : \A j \in at : i <= j

\* the characters of s before its first space
RECURSIVE UpToSpace(_)
UpToSpace(s) ==
    IF s = <<>> \/ Head(s) = " " THEN <<>> ELSE <<Head(s)>> \o UpToSpace(Tail(s))

HasIconField(line) == FindSub(line, <<"m", "a", "g", "e", "=">>) > 0

\* the text after "image=" or "templateImage=", up to the next space
PayloadOf(line) ==
    UpToSpace(SubSeq(line, FindSub(line, <<"m", "a", "g", "e", "=">>) + 5, Len(line)))

Base64Value(c) == CHOOSE v \in 0..63 : Base64Alphabet[v + 1] = c

\* standard base64 decoding, four characters to three bytes, '=' padding
RECURSIVE Base64Decode(_)
Base64Decode(cs) ==
    IF Len(cs) < 4 THEN <<>>
    ELSE
        LET v1 == Base64Value(cs[1])
            v2 == Base64Value(cs[2])
            rest == SubSeq(cs, 5, Len(cs))
        IN  IF cs[3] = "=" THEN <<v1 * 4 + (v2 \div 16)>>
            ELSE IF cs[4] = "=" THEN
                LET v3 == Base64Value(cs[3])
                IN  <<v1 * 4 + (v2 \div 16), (v2 % 16) * 16 + (v3 \div 4)>>
            ELSE
                LET v3 == Base64Value(cs[3])
                    v4 == Base64Value(cs[4])
                IN  <<v1 * 4 + (v2 \div 16), (v2 % 16) * 16 + (v3 \div 4),
                      (v3 % 4) * 64 + v4>> \o Base64Decode(rest)

\* C4 (determinism): a render that returned nil wrote what every earlier render
\* that returned nil wrote, when no builder was called on the Plugin or its items
\* between the start of the earlier render and the start of this one.
Determinism ==
    run[Main].ret = "nil" =>
        \A i \in 1..Len(run[Main].prev) :
            run[Main].prev[i].since = run[Main].since => Out = run[Main].prev[i].out

\* C5 (icon round-trip): in the first render of a tree, the line of every item
\* that has an icon source holds an icon field whose payload decodes to all the
\* bytes of that source, also when two items of the tree have the same source.
IconRoundTrip ==
    run[Main].calls = 1 =>
        \A k \in DOMAIN heap :
            (heap[k].kind = "MenuItem" /\ heap[k].Icon # NilReader /\ Pos(Out, k) > 0) =>
                /\ HasIconField(Out[Pos(Out, k)])
                /\ Base64Decode(PayloadOf(Out[Pos(Out, k)])) = readers[heap[k].Icon].s

\* what RunW writes for the Plugin of goroutine g when it runs alone, from the
\* initial state, and every Write succeeds; the Plugin is a title and plain items
\* in Elements: a source gives its bytes to the first item that reads it
AloneIcon(items, j) ==
    IF \E i \in 1..(j - 1) : heap[items[i]].Icon = heap[items[j]].Icon THEN <<>>
    ELSE IF heap[items[j]].Icon = NilReader THEN <<>>
    ELSE readers[heap[items[j]].Icon].s

AloneOutput(g) ==
    LET items == <<plugin[g].Title>> \o plugin[g].Elements
    IN  [j \in 1..(Len(items) + 1) |->
            IF j = 1 THEN renderSelf(heap[items[1]], AloneIcon(items, 1)) \o LitNewline
            ELSE IF j = 2 THEN LitSeparator \o LitNewline
            ELSE renderSelf(heap[items[j - 1]], AloneIcon(items, j - 1)) \o LitNewline]

\* C6 (concurrent renders): the first render of each goroutine, once it returned
\* nil, wrote what it writes when it runs alone.
ConcurrentAsAlone ==
    \A g \in DOMAIN run :
        (run[g].ret = "nil" /\ run[g].calls = 1) => run[g].out = AloneOutput(g)

PendingReadError ==
    /\ NeedsIcon(Main)
    /\ run[Main].rd.st = "none"
    /\ readers[heap[CurItem(Main)].Icon].kind = "errReader"

\* C7 as stated (icon read failure, like a write failure): the step at a failing
\* icon read ends the call with the error as RunW's result, the item's line
\* unwritten, and no step of the call follows.
IconReadFailureReturned ==
    [][/\ PendingReadError =>
            /\ run'[Main].pc = "returned" /\ run'[Main].ret = "err"
            /\ run'[Main].out = Out /\ run'[Main].writes = run[Main].writes
       /\ run[Main].ret = "panic" => run'[Main].calls = run[Main].calls + 1]_vars

\* C7 as amended (icon read failure): the step at a failing icon read ends the
\* call at once, by a panic that leaves RunW (RunW returns no error value): the
\* item is not skipped, its line is not written, no Write is made, and no step of
\* the call follows: the next step is a new call of RunW.
IconReadFailurePanics ==
    [][/\ PendingReadError =>
            /\ run'[Main].pc = "returned" /\ run'[Main].ret = "panic"
            /\ run'[Main].stack = <<>>
            /\ run'[Main].out = Out /\ run'[Main].writes = run[Main].writes
       /\ (run'[Main].ret = "panic" /\ run[Main].ret # "panic") => PendingReadError
       /\ run[Main].ret = "panic" => run'[Main].calls = run[Main].calls + 1]_vars

\* the icon read of an item below the title failed, after lines were written
IconReadFailurePanicsWitness ==
    /\ run[Main].ret = "panic"
    /\ Len(Out) >= 3
    /\ run[Main].writes = Len(Out)

(***************************************************************************)
(* The number of lines of a render.                                        *)
(***************************************************************************)
\* the walked MenuItems whose Alt is set
WalkedWithAlt(g) == {k \in Walked(g) : heap[k].kind = "MenuItem" /\ heap[k].Alt # NilItem}

\* the items that have a line of their own: the title, the walked MenuItems and
\* the Alt of each walked MenuItem
ItemsWithLine(g) ==
    {plugin[g].Title}
    \cup {k \in Walked(g) : heap[k].kind = "MenuItem"}
    \cup {heap[k].Alt : k \in WalkedWithAlt(g)}

\* C11 (lines emitted): a render that returned nil wrote 1 line for the title, 1
\* more if Elements is not empty, one for each node reached from Elements through
\* SubMenu and one more for each such node whose Alt is set, and no other: the
\* items in the SubMenu or Alt of the title, and in the SubMenu or Alt of an Alt
\* item, have no line.  No render, ended or not, writes a line for such an item
\* or writes the line of an item twice.
LinesEmitted ==
    LET withLine == ItemsWithLine(Main)
        o == Out
    IN  /\ run[Main].ret = "nil" =>
              Len(o) = 1 + (IF Len(plugin[Main].Elements) > 0 THEN 1 ELSE 0)
                         + Cardinality(Walked(Main)) + Cardinality(WalkedWithAlt(Main))
        /\ \A k \in DOMAIN heap :
              LET at == {i \in 1..Len(o) : IsLineOf(o[i], k)}
              IN  /\ k \notin withLine => at = {}
                  /\ Cardinality(at) <= 1
                  /\ (run[Main].ret = "nil" /\ k \in withLine) => at # {}

\* a render returned nil for a tree whose title has a SubMenu or an Alt, with a
\* walked item whose Alt item has a SubMenu or an Alt of its own
LinesEmittedWitness ==
    /\ run[Main].ret = "nil"
    /\ LET t == heap[plugin[Main].Title]
       IN  t.SubMenu # <<>> \/ t.Alt # NilItem
    /\ \E k \in WalkedWithAlt(Main) :
          /\ heap[heap[k].Alt].SubMenu # <<>> \/ heap[heap[k].Alt].Alt # NilItem
          /\ Pos(Out, heap[k].Alt) > 0
    /\ Len(Out) < Cardinality(DOMAIN heap) + 1
====
